---------------------------- MODULE Spec2Model ----------------------------
(***************************************************************************)
(* A model of the campaign forecasting calculator (trading_ai):           *)
(*   - the weekly aggregation of the reference month and the weekly       *)
(*     multipliers / apply-start shares (hooks/useCalculatorLogic.ts),    *)
(*   - calculatePredictions (hooks/useCalculatorLogic.ts),                *)
(*   - the scenario-set evaluation of BudgetOptimization,                 *)
(*   - the validation and the submit button of InputForm,                 *)
(*   - the pacing series, their scaling and their moving averages         *)
(*     (PacingAnalysis),                                                   *)
(*   - the what-if cards and the impact view of JobImpactAnalysis,        *)
(*   - the requests of the Pacing Scenario Explorer (PacingScenarioSlider).*)
(*                                                                         *)
(* JavaScript numbers are modelled as exact rationals n/d extended with   *)
(* the IEEE-754 special values: d = 0 encodes a non-finite value          *)
(* (n = 0: NaN, n > 0: +Infinity, n < 0: -Infinity).  Rounding of the     *)
(* 53-bit mantissa is not modelled; the claims that compare numbers do so *)
(* up to a tolerance.                                                      *)
(***************************************************************************)
EXTENDS Integers, Sequences, FiniteSets, TLC

VARIABLES
    \* ---- the reference dataset (data1.json)
    juneData,          \* day of June 2025 -> [CDSPEND, APPLY_START]
    \* ---- useCalculatorLogic: the derived weekly state
    aggPc,             \* "off" | "loaded" | "derived"
    juneCPASByWeek,    \* week 1..5 -> number
    weekMultipliers,   \* sequence of 4 numbers
    weekProportions,   \* sequence of 4 numbers
    \* ---- BudgetOptimization
    scPc,              \* "off" | "effect" (the effect is due) | "idle"
    scInputs,          \* props.inputs
    scConfidence,      \* props.results.confidence
    loadingScenarios,
    rawScenarios,      \* calculatedScenarios as the map returned it
    scenarios,         \* the scenarios state
    effectRuns,        \* how often the effect ran
    \* ---- TradingCalculator and its useCalculatorLogic instance
    tcInputs,          \* TradingCalculator's inputs state
    results,           \* the hook's results state
    isCalculating,     \* the hook's isCalculating state
    calls,             \* the calculatePredictions calls, in the order they started
    appropriateEndDate, \* what JoveoRecommendations derived on its last render
    \* ---- InputForm
    formData,          \* the TradingInputs being edited, null while not mounted
    showDurationWarning,
    toast,             \* the last toast of handleSubmit
    submits,           \* how often the form was submitted
    \* ---- PacingAnalysis
    pacingPc,          \* "off" | "render" (a render is due) | "idle"
    pacingInputs,      \* props.inputs
    pacingResults,     \* props.results
    chartDataAS,       \* the daily apply-start series of the last render
    chartDataSpend,    \* the daily spend series of the last render
    chartDataASScaled,
    chartDataSpendScaled,
    chartDataWithMA,      \* chartData with cpasMA
    chartDataASWithMA,    \* chartDataAS with asMA
    chartDataSpendWithMA, \* chartDataSpend with spendMA
    pacingRenders,     \* how often the component rendered
    \* ---- JobImpactAnalysis
    qualityInputs,     \* props.inputs
    jobScores,
    loadingScores,
    errorScores,
    scoresPc,          \* "off" | "effect" (the mount effect is due) | "fetch" | "done"
    impact,
    loadingImpact,
    errorImpact,
    impactEffectDue,   \* the effect on inputs is due
    impactRequests,    \* the job-impact-scenario requests, in the order they were issued
    cards,             \* the four what-if cards of the last render
    \* ---- PacingScenarioSlider
    sliderInputs,      \* props.inputs, null while not mounted
    budgetPct,         \* the budget slider, in hundredths (100 is 1)
    duration,          \* the duration slider, in days
    scenario,          \* the scenario state
    loading,
    boundaries,
    boundariesLoading,
    scenarioRuns,      \* the runScenario calls, in the order the effect started them
    boundaryRuns,      \* the getBoundaries calls, in the order the effect started them
    sliderMoves        \* how often a slider was moved

dataVars == <<juneData>>

aggVars == <<aggPc, juneCPASByWeek, weekMultipliers, weekProportions>>

scVars == <<scPc, scInputs, scConfidence, loadingScenarios, rawScenarios, scenarios, effectRuns>>

hookVars == <<tcInputs, results, isCalculating, calls, appropriateEndDate>>

formVars == <<formData, showDurationWarning, toast, submits>>

pacingVars ==
    <<pacingPc, pacingInputs, pacingResults, chartDataAS, chartDataSpend,
      chartDataASScaled, chartDataSpendScaled, pacingRenders,
      chartDataWithMA, chartDataASWithMA, chartDataSpendWithMA>>

qualityVars ==
    <<qualityInputs, jobScores, loadingScores, errorScores, scoresPc, impact,
      loadingImpact, errorImpact, impactEffectDue, impactRequests, cards>>

sliderVars ==
    <<sliderInputs, budgetPct, duration, scenario, loading, boundaries,
      boundariesLoading, scenarioRuns, boundaryRuns, sliderMoves>>

vars ==
    <<dataVars, aggVars, scVars, hookVars, formVars, pacingVars, qualityVars, sliderVars>>

\* what the actions of one component leave alone
exceptAgg ==
    <<dataVars, scVars, hookVars, formVars, pacingVars, qualityVars, sliderVars>>

exceptSc ==
    <<dataVars, aggVars, hookVars, formVars, pacingVars, qualityVars, sliderVars>>

exceptHook ==
    <<dataVars, aggVars, scVars, formVars, pacingVars, qualityVars, sliderVars>>

exceptForm ==
    <<dataVars, aggVars, scVars, pacingVars, qualityVars, sliderVars>>

exceptPacing ==
    <<dataVars, aggVars, scVars, hookVars, formVars, qualityVars, sliderVars>>

exceptQuality ==
    <<dataVars, aggVars, scVars, hookVars, formVars, pacingVars, sliderVars>>

exceptSlider ==
    <<dataVars, aggVars, scVars, hookVars, formVars, pacingVars, qualityVars>>

-----------------------------------------------------------------------------
(* JavaScript numbers *)

Abs(i) == IF i < 0 THEN -i ELSE i

Sign(i) == IF i > 0 THEN 1 ELSE IF i < 0 THEN -1 ELSE 0

RECURSIVE Gcd(_, _)
Gcd(a, b) == IF b = 0 THEN a ELSE Gcd(b, a % b)

\* the number n/d in lowest terms with d >= 0
Norm(n, d) ==
    IF d = 0 THEN [n |-> Sign(n), d |-> 0]
    ELSE LET g == Gcd(Abs(n), Abs(d))
             s == IF d < 0 THEN -1 ELSE 1
         IN  [n |-> s * (n \div g), d |-> s * (d \div g)]

Num(i) == [n |-> i, d |-> 1]

NaN == [n |-> 0, d |-> 0]

PosInf == [n |-> 1, d |-> 0]

NegInf == [n |-> -1, d |-> 0]

IsNaN(a) == a.d = 0 /\ a.n = 0

IsFinite(a) == a.d > 0

\* a + b
NAdd(a, b) ==
    IF IsNaN(a) \/ IsNaN(b) THEN NaN
    ELSE IF a.d = 0 /\ b.d = 0 THEN (IF a.n = b.n THEN a ELSE NaN)
    ELSE IF a.d = 0 THEN a
    ELSE IF b.d = 0 THEN b
    ELSE Norm(a.n * b.d + b.n * a.d, a.d * b.d)

NNeg(a) == [n |-> -a.n, d |-> a.d]

\* a - b
NSub(a, b) == NAdd(a, NNeg(b))

\* a * b
NMul(a, b) == Norm(a.n * b.n, a.d * b.d)

\* a / b (x/0 is +-Infinity, 0/0 is NaN)
NDiv(a, b) ==
    IF IsNaN(a) \/ IsNaN(b) THEN NaN
    ELSE LET s == IF b.n < 0 THEN -1 ELSE 1
         IN  Norm(s * a.n * b.d, s * a.d * b.n)

\* a < b (false when either is NaN)
NLt(a, b) ==
    IF IsNaN(a) \/ IsNaN(b) THEN FALSE
    ELSE IF a.d = 0 /\ b.d = 0 THEN a.n < b.n
    ELSE IF a.d = 0 THEN a.n < 0
    ELSE IF b.d = 0 THEN b.n > 0
    ELSE a.n * b.d < b.n * a.d

\* a <= b (false when either is NaN)
NLe(a, b) == ~IsNaN(a) /\ ~IsNaN(b) /\ ~NLt(b, a)

\* a === b on numbers (NaN equals nothing)
NEq(a, b) == ~IsNaN(a) /\ ~IsNaN(b) /\ a = b

\* the truthiness of a number: 0 and NaN are falsy
Truthy(a) == a.n # 0

\* floor and ceiling of the integer quotient n/d, d > 0
FloorDiv(n, d) == n \div d

CeilDiv(n, d) == -((-n) \div d)

\* Math.ceil
MathCeil(a) == IF a.d = 0 THEN a ELSE Num(CeilDiv(a.n, a.d))

\* Math.round: the nearest integer, ties towards +Infinity
MathRound(a) == IF a.d = 0 THEN a ELSE Num(FloorDiv(2 * a.n + a.d, 2 * a.d))

\* Math.max of two numbers
MathMax(a, b) ==
    IF IsNaN(a) \/ IsNaN(b) THEN NaN ELSE IF NLt(a, b) THEN b ELSE a

\* reduce((a, b) => a + b, 0) over a sequence of numbers
RECURSIVE SumSeq(_)
SumSeq(s) == IF s = <<>> THEN Num(0) ELSE NAdd(SumSeq(SubSeq(s, 1, Len(s) - 1)), s[Len(s)])

\* the elements of set S (of integers) in increasing order
RECURSIVE SortedSeq(_)
SortedSeq(S) ==
    IF S = {} THEN <<>>
    ELSE LET m == CHOOSE x \in S : \A y \in S : x <= y
         IN  <<m>> \o SortedSeq(S \ {m})

-----------------------------------------------------------------------------
(* The reference dataset *)

\* bound of the dataset rows: the apply starts of a row
MaxApply == 1

\* the spend values of a row
SpendValues == {0, 1, 2}

\* the days of June 2025 that carry a row: one per week-of-month bucket 1..5
SampleDays == {1, 8, 15, 22, 29}

Rows == [CDSPEND : SpendValues, APPLY_START : 0..MaxApply]

Datasets == [SampleDays -> Rows]

\* getJuneWeek: the week number of a day of month (1-based)
getJuneWeek(day) == ((day - 1) \div 7) + 1

\* the sum of f[x] over the integers x of S
RECURSIVE SumOver(_, _)
SumOver(S, f) ==
    IF S = {} THEN 0
    ELSE LET x == CHOOSE y \in S : TRUE IN f[x] + SumOver(S \ {x}, f)

\* the days whose row enters the weekly CPAS sums (spend and apply starts positive)
CpasDays(data) == {d \in DOMAIN data : data[d].APPLY_START > 0 /\ data[d].CDSPEND > 0}

\* weekSums: per week with such a row, the summed spend and apply starts
weekSums(data) ==
    [w \in {getJuneWeek(d) : d \in CpasDays(data)} |->
        LET ds == {d \in CpasDays(data) : getJuneWeek(d) = w}
        IN  [spend |-> SumOver(ds, [d \in ds |-> data[d].CDSPEND]),
             apply |-> SumOver(ds, [d \in ds |-> data[d].APPLY_START])]]

\* juneCPASByWeek before the fill: spend / apply of every week that has sums
rawCPASByWeek(data) ==
    LET ws == weekSums(data)
    IN  [w \in DOMAIN ws |-> NDiv(Num(ws[w].spend), Num(ws[w].apply))]

\* juneAvgCPAS: the mean of the values of juneCPASByWeek (0/0 when it is empty)
juneAvgCPAS(data) ==
    LET raw == rawCPASByWeek(data)
        vals == [i \in 1..Cardinality(DOMAIN raw) |-> raw[SortedSeq(DOMAIN raw)[i]]]
    IN  NDiv(SumSeq(vals), Num(Len(vals)))

\* the highest week the hook fills with the June average
FillWeeksHook == 5

\* juneCPASByWeek after "if (!juneCPASByWeek[w]) juneCPASByWeek[w] = juneAvgCPAS"
filledCPASByWeek(data, lastWeek) ==
    LET raw == rawCPASByWeek(data)
        avg == juneAvgCPAS(data)
    IN  [w \in (DOMAIN raw) \cup (1..lastWeek) |->
            IF w \in DOMAIN raw /\ Truthy(raw[w]) THEN raw[w] ELSE avg]

\* weekMultipliers: cpas[w] / juneAvgCPAS for w = 1..4, then each divided by their mean
normalizedMultipliers(data) ==
    LET cpas == filledCPASByWeek(data, FillWeeksHook)
        avg == juneAvgCPAS(data)
        first == [w \in 1..4 |-> NDiv(cpas[w], avg)]
        avgMultiplier == NDiv(SumSeq(first), Num(Len(first)))
    IN  [i \in 1..4 |-> NDiv(first[i], avgMultiplier)]

\* the days whose row enters the apply-start sums
ApplyDays(data) == {d \in DOMAIN data : data[d].APPLY_START > 0}

\* weekApplyStarts[w] || 0
weekApplyStarts(data, w) ==
    LET ds == {d \in ApplyDays(data) : getJuneWeek(d) = w}
    IN  SumOver(ds, [d \in ds |-> data[d].APPLY_START])

totalJuneAS(data) ==
    SumOver(ApplyDays(data), [d \in ApplyDays(data) |-> data[d].APPLY_START])

\* weekProportions: weekApplyStarts[w] / totalJuneAS, or 1/4 for a week without apply starts
applyProportions(data) ==
    LET total == totalJuneAS(data)
    IN  [i \in 1..4 |->
            LET was == weekApplyStarts(data, i)
            IN  IF was # 0 THEN NDiv(Num(was), Num(total)) ELSE NDiv(Num(1), Num(4))]

-----------------------------------------------------------------------------
(* Components that a specification does not exercise stay unmounted *)

NoData == <<>>

ScOff ==
    /\ scPc = "off"
    /\ scInputs = <<>>
    /\ scConfidence = <<>>
    /\ loadingScenarios = TRUE
    /\ rawScenarios = <<>>
    /\ scenarios = <<>>
    /\ effectRuns = 0

\* JavaScript's null and undefined
null == [null |-> TRUE]

undefined == [undefined |-> TRUE]

HookOff ==
    /\ tcInputs = null
    /\ results = null
    /\ isCalculating = FALSE
    /\ calls = <<>>
    /\ appropriateEndDate = undefined

FormOff ==
    /\ formData = null
    /\ showDurationWarning = FALSE
    /\ toast = null
    /\ submits = 0

PacingOff ==
    /\ pacingPc = "off"
    /\ pacingInputs = null
    /\ pacingResults = null
    /\ chartDataAS = <<>>
    /\ chartDataSpend = <<>>
    /\ chartDataASScaled = <<>>
    /\ chartDataSpendScaled = <<>>
    /\ chartDataWithMA = <<>>
    /\ chartDataASWithMA = <<>>
    /\ chartDataSpendWithMA = <<>>
    /\ pacingRenders = 0

QualityOff ==
    /\ qualityInputs = null
    /\ jobScores = <<>>
    /\ loadingScores = FALSE
    /\ errorScores = null
    /\ scoresPc = "off"
    /\ impact = null
    /\ loadingImpact = FALSE
    /\ errorImpact = null
    /\ impactEffectDue = FALSE
    /\ impactRequests = <<>>
    /\ cards = <<>>

SliderOff ==
    /\ sliderInputs = null
    /\ budgetPct = 100
    /\ duration = 30
    /\ scenario = null
    /\ loading = FALSE
    /\ boundaries = null
    /\ boundariesLoading = FALSE
    /\ scenarioRuns = <<>>
    /\ boundaryRuns = <<>>
    /\ sliderMoves = 0

-----------------------------------------------------------------------------
(* The hook body: every render of useCalculatorLogic derives the weekly state *)

\* the component is not mounted
AggOff ==
    /\ aggPc = "off"
    /\ juneCPASByWeek = <<>>
    /\ weekMultipliers = <<>>
    /\ weekProportions = <<>>

InitAggregator ==
    /\ juneData \in Datasets
    /\ aggPc = "loaded"
    /\ juneCPASByWeek = <<>>
    /\ weekMultipliers = <<>>
    /\ weekProportions = <<>>
    /\ ScOff
    /\ HookOff
    /\ FormOff
    /\ PacingOff
    /\ QualityOff
    /\ SliderOff

useCalculatorLogic ==
    /\ aggPc = "loaded"
    /\ aggPc' = "derived"
    /\ juneCPASByWeek' = filledCPASByWeek(juneData, FillWeeksHook)
    /\ weekMultipliers' = normalizedMultipliers(juneData)
    /\ weekProportions' = applyProportions(juneData)
    /\ UNCHANGED exceptAgg

NextAggregator == useCalculatorLogic

SpecAggregator == InitAggregator /\ [][NextAggregator]_vars

-----------------------------------------------------------------------------
(* Claims about the weekly multipliers and shares *)

\* |a - b| <= 1e-9, both finite
Within1e9(a, b) ==
    /\ IsFinite(a) /\ IsFinite(b)
    /\ LET diff == NSub(a, b) IN Abs(diff.n) <= diff.d \div (10 ^ 9)

\* the mean of a sequence of numbers
MeanSeq(s) == NDiv(SumSeq(s), Num(Len(s)))

\* C1: after the two-step normalization the four weekly multipliers have a
\* mean of 1.0 within 1e-9, for every dataset (also one without valid rows)
C1_MultiplierMeanIsOne ==
    aggPc = "derived" => Within1e9(MeanSeq(weekMultipliers), Num(1))

\* C2: the four week apply-start shares sum to 1.0 within 1e-9, for every
\* dataset (also one with rows on days 29-31 or with a missing week)
C2_SharesSumToOne ==
    aggPc = "derived" => Within1e9(SumSeq(weekProportions), Num(1))

\* C16: for every dataset each week bucket 1..4 ends up with a finite CPAS: a
\* bucket with valid rows has its summed spend over its summed apply starts, a
\* bucket without valid rows has the mean CPAS of the buckets with data, and
\* no NaN reaches the weekly multipliers, also when no bucket has data
C16_WeekCPASDefined ==
    aggPc = "derived" =>
        \A w \in 1..4 :
            LET ds == {d \in CpasDays(juneData) : getJuneWeek(d) = w}
                spend == SumOver(ds, [d \in ds |-> juneData[d].CDSPEND])
                apply == SumOver(ds, [d \in ds |-> juneData[d].APPLY_START])
            IN  /\ IsFinite(juneCPASByWeek[w])
                /\ IsFinite(weekMultipliers[w])
                /\ ds # {} => juneCPASByWeek[w] = Norm(spend, apply)
                /\ ds = {} => juneCPASByWeek[w] = juneAvgCPAS(juneData)

-----------------------------------------------------------------------------
(* Calendar: a date string is modelled as its day number, 1 = 2025-01-01.  *)
(* new Date(s).getTime() differences of date-only strings are whole days;  *)
(* getMonth() and getDate() are taken in UTC.                              *)

MonthLengths == <<31, 28, 31, 30, 31, 30, 31, 31, 30, 31, 30, 31>>

\* the day of the year 1..365 of a day number (2026 and 2027 repeat 2025's calendar)
DayOfYear(date) == ((date - 1) % 365) + 1

RECURSIVE MonthFrom(_, _)
MonthFrom(doy, m) ==
    IF doy <= MonthLengths[m] THEN m ELSE MonthFrom(doy - MonthLengths[m], m + 1)

\* getMonth() + 1
MonthOf(date) == MonthFrom(DayOfYear(date), 1)

RECURSIVE DayFrom(_, _)
DayFrom(doy, m) ==
    IF doy <= MonthLengths[m] THEN doy ELSE DayFrom(doy - MonthLengths[m], m + 1)

\* getDate()
DayOfMonth(date) == DayFrom(DayOfYear(date), 1)

\* the day number of a month and day of 2025
RECURSIVE DateOf(_, _)
DateOf(month, day) == IF month = 1 THEN day ELSE MonthLengths[month - 1] + DateOf(month - 1, day)

-----------------------------------------------------------------------------
(* Math.pow and the scenario formula's arithmetic.  The formula's          *)
(* intermediate values are kept to Scale units per 1 (every operation      *)
(* rounds to the nearest unit, as every floating-point operation rounds to *)
(* the nearest double); Math.pow(a / b, 1 / k) is the nearest unit to the  *)
(* k-th root, found by comparing k-th powers in multi-limb arithmetic.     *)

\* units per 1 of the scenario formula's intermediate values
Scale == 1000

LimbBase == 10 ^ 4

\* a natural number as its limbs, least significant first
RECURSIVE BigOf(_)
BigOf(n) == IF n = 0 THEN <<>> ELSE <<n % LimbBase>> \o BigOf(n \div LimbBase)

RECURSIVE BigMulCarry(_, _, _)
BigMulCarry(b, m, c) ==
    IF b = <<>> THEN BigOf(c)
    ELSE LET t == Head(b) * m + c
         IN  <<t % LimbBase>> \o BigMulCarry(Tail(b), m, t \div LimbBase)

\* b * m
BigMulSmall(b, m) == IF m = 0 THEN <<>> ELSE BigMulCarry(b, m, 0)

\* b * m^k
RECURSIVE BigTimesPow(_, _, _)
BigTimesPow(b, m, k) == IF k = 0 THEN b ELSE BigTimesPow(BigMulSmall(b, m), m, k - 1)

RECURSIVE BigLeFrom(_, _, _)
BigLeFrom(a, b, i) ==
    IF i = 0 THEN TRUE
    ELSE IF a[i] # b[i] THEN a[i] < b[i]
    ELSE BigLeFrom(a, b, i - 1)

\* a <= b
BigLe(a, b) == IF Len(a) # Len(b) THEN Len(a) < Len(b) ELSE BigLeFrom(a, b, Len(a))

\* the largest r in lo..hi-1 with (2r - 1)^k * b <= rhs
RECURSIVE RootSearch(_, _, _, _, _)
RootSearch(lo, hi, b, k, rhs) ==
    IF hi - lo <= 1 THEN lo
    ELSE LET mid == (lo + hi) \div 2
         IN  IF BigLe(BigTimesPow(BigOf(b), 2 * mid - 1, k), rhs)
             THEN RootSearch(mid, hi, b, k, rhs)
             ELSE RootSearch(lo, mid, b, k, rhs)

\* Math.pow(a / b, 1 / k) in units, for a >= 0, b > 0
MathPow(a, b, k) ==
    IF a = 0 THEN 0
    ELSE RootSearch(0, Scale * (a \div b + 1) + 1, b, k,
                    BigTimesPow(BigOf(a), 2 * Scale, k))

\* n / d in units, n >= 0 and d > 0
UnitsOf(n, d) == LET r == Norm(n, d) IN (r.n * Scale + r.d \div 2) \div r.d

\* x * y of two values in units
UMul(x, y) == (x * y + Scale \div 2) \div Scale

\* parseFloat(x.toFixed(2)) of a value in units
ToFixed2(x) == Norm((x * 100 + Scale \div 2) \div Scale, 100)

-----------------------------------------------------------------------------
(* BudgetOptimization: the scenario-set evaluation *)

\* --- Constants (should match backend) ---
CLIENT_ACHIEVED_SPEND_CENTS == 6536624

CLIENT_ACHIEVED_AS == 11098

CLIENT_BUDGET == 67416

CLIENT_AS_GOAL_HISTORICAL == 13249

CLIENT_DURATION == 30

\* ALPHA = 0.2, GAMMA = 0.1, DELTA = 0.1 as the roots 1/5, 1/10, 1/10
ALPHA_ROOT == 5

GAMMA_ROOT == 10

DELTA_ROOT == 10

\* the constants derived once per evaluation are kept ten times finer than a
\* unit, so that the products of the formula start from an accurate base
FineScale == 10 * Scale

\* n / d in fine units, n >= 0 and d > 0
FineOf(n, d) ==
    LET r == Norm(n, d)
    IN  (r.n \div r.d) * FineScale + ((r.n % r.d) * FineScale + r.d \div 2) \div r.d

\* in fine units
CLIENT_ACHIEVED_CPAS == FineOf(CLIENT_ACHIEVED_SPEND_CENTS, CLIENT_ACHIEVED_AS * 100)

\* in fine units
CLIENT_TARGET_CPAS_FOR_RF == FineOf(CLIENT_BUDGET, CLIENT_AS_GOAL_HISTORICAL)

\* in fine units
RF_STATIC ==
    (CLIENT_ACHIEVED_CPAS * FineScale + CLIENT_TARGET_CPAS_FOR_RF \div 2)
        \div CLIENT_TARGET_CPAS_FOR_RF

\* CLIENT_ACHIEVED_CPAS * RF_STATIC, in units
BASE_PREDICTED_CPAS_FACTOR ==
    LET fine == (CLIENT_ACHIEVED_CPAS * RF_STATIC + FineScale \div 2) \div FineScale
    IN  (fine * Scale + FineScale \div 2) \div FineScale

\* the seasonality table of the scenario formula, in hundredths
seasonality ==
    [m \in 1..12 |->
        CASE m = 6 -> 100 [] m = 7 -> 105 [] m = 8 -> 110 [] m = 9 -> 95
          [] m = 10 -> 90 [] m = 11 -> 85 [] m = 12 -> 80 [] m = 1 -> 90
          [] m = 2 -> 92 [] m = 3 -> 95 [] m = 4 -> 98 [] m = 5 -> 100]

\* scenarioConfigs: name, budgetMultiplier, confidence
scenarioConfigs(confidence) ==
    << [name |-> "Conservative", budgetMultiplier |-> Norm(8, 10), risk |-> "Low",
        confidence |-> Norm(95, 100)],
       [name |-> "Current Plan", budgetMultiplier |-> Norm(10, 10), risk |-> "Medium",
        confidence |-> confidence],
       [name |-> "Aggressive", budgetMultiplier |-> Norm(125, 100), risk |-> "High",
        confidence |-> Norm(75, 100)] >>

\* scenarioInputs.budget
scenarioBudget(inputs, config) == MathRound(NMul(Num(inputs.budget), config.budgetMultiplier)).n

\* numDays without the end day
numDaysOf_Exclusive(inputs) == inputs.endDate - inputs.startDate

\* numDays: both the start and the end day count
numDaysOf(inputs) == (inputs.endDate - inputs.startDate) + 1

\* estimatedCPAS of one scenario, in units
estimatedCPASOf(inputs, budget) ==
    LET startMonth == MonthOf(inputs.startDate)
        asGoal == IF inputs.asGoal # 0 THEN inputs.asGoal ELSE 1
        seasonalityFactor == UnitsOf(seasonality[startMonth], 100)
        DURATION_IMPACT_FACTOR == MathPow(CLIENT_DURATION, numDaysOf(inputs), ALPHA_ROOT)
        BUDGET_SENSITIVITY_FACTOR == MathPow(budget, CLIENT_BUDGET, GAMMA_ROOT)
        AS_GOAL_SENSITIVITY_FACTOR == MathPow(asGoal, CLIENT_AS_GOAL_HISTORICAL, DELTA_ROOT)
        JOB_QUALITY_IMPACT_FACTOR == Scale
    IN  UMul(UMul(UMul(UMul(UMul(BASE_PREDICTED_CPAS_FACTOR, DURATION_IMPACT_FACTOR),
                                 BUDGET_SENSITIVITY_FACTOR),
                            AS_GOAL_SENSITIVITY_FACTOR),
                       JOB_QUALITY_IMPACT_FACTOR),
             seasonalityFactor)

\* projectedASOf with the operands of the division swapped
projectedASOf_Swapped(budget, estimatedCPAS) ==
    IF estimatedCPAS > 0 THEN NDiv(Norm(estimatedCPAS, Scale), Num(budget)) ELSE Num(0)

\* projectedAS = estimatedCPAS > 0 ? budget / estimatedCPAS : 0
projectedASOf(budget, estimatedCPAS) ==
    IF estimatedCPAS > 0 THEN NDiv(Num(budget), Norm(estimatedCPAS, Scale)) ELSE Num(0)

\* the record one scenarioConfigs.map callback returns
scenarioRecord(config, budget, estimatedCPAS) ==
    [name |-> config.name,
     budget |-> budget,
     projectedAS |-> MathRound(projectedASOf(budget, estimatedCPAS)),
     cpas |-> ToFixed2(estimatedCPAS),
     risk |-> config.risk,
     confidence |-> config.confidence]

\* one scenarioConfigs.map callback
scenarioOf(inputs, config) ==
    scenarioRecord(config, scenarioBudget(inputs, config),
                   estimatedCPASOf(inputs, scenarioBudget(inputs, config)))

\* calculatedScenarios as scenarioConfigs.map returns it
calculatedScenarios(inputs, confidence) ==
    [i \in 1..3 |-> scenarioOf(inputs, scenarioConfigs(confidence)[i])]

\* needsAdjustment with > in place of >=
needsAdjustment_Strict(conservative, currentPlan) ==
    NLt(currentPlan.projectedAS, conservative.projectedAS)

\* Conservative AS >= Current Plan AS
needsAdjustment(conservative, currentPlan) ==
    NLe(currentPlan.projectedAS, conservative.projectedAS)

\* Math.round(currentPlan.projectedAS * 0.75)
adjustedAS(currentPlan) == MathRound(NMul(currentPlan.projectedAS, Norm(75, 100)))

\* the edge case adjustment: Conservative is reduced when it is not below Current Plan
adjustConservative(calculated) ==
    LET conservative == calculated[1]
        currentPlan == calculated[2]
    IN  IF needsAdjustment(conservative, currentPlan)
        THEN [calculated EXCEPT
                ![1].projectedAS = adjustedAS(currentPlan),
                ![1].cpas = NDiv(Num(conservative.budget), adjustedAS(currentPlan))]
        ELSE calculated

\* bound of the budgets the form submits
MaxBudget == 8

ScBudgets == (1..MaxBudget) \cup {CLIENT_BUDGET}

ScGoals == {1, CLIENT_AS_GOAL_HISTORICAL}

\* campaign windows: June 1 to June 30, November 10 to 16, December 1 to 30
ScWindows ==
    {<<DateOf(6, 1), DateOf(6, 30)>>, <<DateOf(11, 10), DateOf(11, 16)>>,
     <<DateOf(12, 1), DateOf(12, 30)>>}

ScenarioInputs ==
    {[budget |-> b, asGoal |-> g, startDate |-> w[1], endDate |-> w[2]] :
        b \in ScBudgets, g \in ScGoals, w \in ScWindows}

Confidences == {Norm(95, 100), Norm(80, 100)}

\* bound of the number of effect runs of one mounted component
MaxEffects == 2

\* calculatedScenarios over the inputs of the model, evaluated once
calculatedScenariosOf ==
    [inputs \in ScenarioInputs |->
        [confidence \in Confidences |-> calculatedScenarios(inputs, confidence)]]

InitScenario ==
    /\ juneData = NoData
    /\ AggOff
    /\ FormOff
    /\ scPc = "effect"
    /\ scInputs \in ScenarioInputs
    /\ scConfidence \in Confidences
    /\ loadingScenarios = TRUE
    /\ rawScenarios = <<>>
    /\ scenarios = <<>>
    /\ effectRuns = 0
    /\ HookOff
    /\ PacingOff
    /\ QualityOff
    /\ SliderOff

\* an effect that keeps the scenario list of the first evaluation
calculateScenarios_KeepsFirst ==
    /\ scPc = "effect"
    /\ rawScenarios' = calculatedScenariosOf[scInputs][scConfidence]
    /\ scenarios' = IF effectRuns = 0 THEN adjustConservative(rawScenarios')
                    ELSE scenarios
    /\ loadingScenarios' = FALSE
    /\ scPc' = "idle"
    /\ effectRuns' = effectRuns + 1
    /\ UNCHANGED <<scInputs, scConfidence, exceptSc>>

\* the effect: calculateScenarios()
calculateScenarios ==
    /\ scPc = "effect"
    /\ rawScenarios' = calculatedScenariosOf[scInputs][scConfidence]
    /\ scenarios' = adjustConservative(rawScenarios')
    /\ loadingScenarios' = FALSE
    /\ scPc' = "idle"
    /\ effectRuns' = effectRuns + 1
    /\ UNCHANGED <<scInputs, scConfidence, exceptSc>>

\* the parent renders the component with new props: the effect is due again
scenarioPropsChange(inputs, confidence) ==
    /\ scPc = "idle"
    /\ effectRuns < MaxEffects
    /\ <<inputs, confidence>> # <<scInputs, scConfidence>>
    /\ scInputs' = inputs
    /\ scConfidence' = confidence
    /\ scPc' = "effect"
    /\ UNCHANGED <<loadingScenarios, rawScenarios, scenarios, effectRuns, exceptSc>>

NextScenario ==
    \/ calculateScenarios
    \/ \E inputs \in ScenarioInputs, confidence \in Confidences :
          scenarioPropsChange(inputs, confidence)

SpecScenario == InitScenario /\ [][NextScenario]_vars

-----------------------------------------------------------------------------
(* Claims about the scenario-set evaluation *)

ScenarioIndex == 1..3

\* the scenarios the formula returns for the same window and goal as scInputs
SameWindowScenarios ==
    { calculatedScenariosOf[other][scConfidence][j] :
        other \in { o \in ScenarioInputs :
                      /\ o.startDate = scInputs.startDate
                      /\ o.endDate = scInputs.endDate
                      /\ o.asGoal = scInputs.asGoal },
        j \in ScenarioIndex }

\* C3 as stated: for a fixed window and goal, a scenario with a larger budget
\* has strictly greater projected apply starts, in the values returned
C3_StrictlyMonotoneInBudget ==
    scPc = "idle" =>
        \A i \in ScenarioIndex : \A other \in SameWindowScenarios :
            rawScenarios[i].budget < other.budget
                => NLt(rawScenarios[i].projectedAS, other.projectedAS)

\* C3 amended: for a fixed window and goal, a scenario with a larger budget
\* never has fewer projected apply starts than one with a smaller budget (the
\* returned values are rounded to whole apply starts, so they may be equal)
C3_MonotoneInBudget ==
    scPc = "idle" =>
        \A i \in ScenarioIndex : \A other \in SameWindowScenarios :
            rawScenarios[i].budget < other.budget
                => NLe(rawScenarios[i].projectedAS, other.projectedAS)

\* C3 witness: three different budgets were evaluated and the apply starts grew
C3_Witness ==
    /\ scPc = "idle"
    /\ rawScenarios[1].budget < rawScenarios[2].budget
    /\ rawScenarios[2].budget < rawScenarios[3].budget
    /\ NLt(rawScenarios[1].projectedAS, rawScenarios[2].projectedAS)
    /\ NLt(rawScenarios[2].projectedAS, rawScenarios[3].projectedAS)

\* a is Math.round(0.75 * c) for the whole numbers a and c
IsRoundOfThreeQuarters(a, c) == 4 * a <= 3 * c + 2 /\ 3 * c + 2 < 4 * a + 4

\* C5: when Conservative's raw conversions are >= Current Plan's, Conservative's
\* conversions become round(0.75 * Current Plan's) and its CPAS its budget
\* divided by them; otherwise Conservative stays as the formula produced it;
\* Current Plan and Aggressive are never adjusted
C5_ConservativeGuard ==
    scPc = "idle" =>
        LET rawCons == rawScenarios[1]
            rawCur == rawScenarios[2]
            cons == scenarios[1]
        IN  /\ scenarios[2] = rawScenarios[2]
            /\ scenarios[3] = rawScenarios[3]
            /\ rawCons.projectedAS.n >= rawCur.projectedAS.n =>
                  /\ cons.projectedAS.d = 1
                  /\ IsRoundOfThreeQuarters(cons.projectedAS.n, rawCur.projectedAS.n)
                  /\ IF cons.projectedAS.n > 0
                     THEN IsFinite(cons.cpas)
                          /\ cons.cpas.n * cons.projectedAS.n = cons.budget * cons.cpas.d
                     ELSE cons.cpas = PosInf
                  /\ cons.name = rawCons.name
                  /\ cons.budget = rawCons.budget
                  /\ cons.risk = rawCons.risk
                  /\ cons.confidence = rawCons.confidence
            /\ rawCons.projectedAS.n < rawCur.projectedAS.n => cons = rawCons

\* C5 witness: the guard fired and lowered Conservative's conversions
C5_Witness ==
    /\ scPc = "idle"
    /\ rawScenarios[1].projectedAS.n >= rawScenarios[2].projectedAS.n
    /\ scenarios[1].projectedAS.n < rawScenarios[1].projectedAS.n
    /\ scenarios[1].projectedAS.n > 0

\* C6: after the evaluation Conservative's projected conversions are strictly
\* lower than Current Plan's, for every valid input
C6_ConservativeBelowCurrent ==
    scPc = "idle" => NLt(scenarios[1].projectedAS, scenarios[2].projectedAS)

\* C10: for every input with budget > 0 every evaluated scenario has a finite
\* CPAS and finite projected conversions
C10_ScenariosFinite ==
    (scPc = "idle" /\ scInputs.budget > 0) =>
        \A i \in ScenarioIndex :
            IsFinite(scenarios[i].cpas) /\ IsFinite(scenarios[i].projectedAS)

-----------------------------------------------------------------------------
(* TradingCalculator with its useCalculatorLogic instance: calculatePredictions *)

\* typeof x === 'number'
IsNumber(x) == "n" \in DOMAIN x

\* the truthiness of an optional number
JsTruthy(x) == IsNumber(x) /\ Truthy(x)

\* bound of the number of calculatePredictions calls of one hook instance
MaxCalls == 2

\* form inputs that pass validateForm: budget > 0, asGoal > 0, startDate < endDate
HookWindows == {<<DateOf(6, 1), DateOf(6, 2)>>, <<DateOf(6, 1), DateOf(6, 11)>>}

HookGoals == {<<1, undefined>>, <<50, Num(5)>>}

HookInputs ==
    { [budget |-> 100, asGoal |-> goal[1], cpasGoal |-> goal[2],
       startDate |-> w[1], endDate |-> w[2]] :
        goal \in HookGoals, w \in HookWindows }

\* bodies of a successful response of /api/cpas-for-budget: one typical body
\* and the bodies that differ from it in one field
TypicalResponse ==
    [cpas |-> Num(5), total_apply_starts |-> Num(3), total_spend |-> Num(95),
     confidence |-> undefined]

ResponseData ==
    {TypicalResponse}
    \cup {[TypicalResponse EXCEPT !.total_apply_starts = Num(0)]}
    \cup {[TypicalResponse EXCEPT !.cpas = Num(6)]}
    \cup {[TypicalResponse EXCEPT !.total_spend = Num(94)]}
    \cup {[TypicalResponse EXCEPT !.confidence = conf] :
              conf \in {Norm(4, 5), Norm(3, 2), [string |-> "high"]}}

\* campaignDays with the end day counted too
campaignDaysOf_Inclusive(formInputs) == (formInputs.endDate - formInputs.startDate) + 1

\* campaignDays = Math.ceil((endDate - startDate) / one day)
campaignDaysOf(formInputs) == formInputs.endDate - formInputs.startDate

\* minDuration = Math.max(7, campaignDays)
minDurationOf(formInputs) == MathMax(Num(7), Num(campaignDaysOf(formInputs)))

\* rawDaysToGoal = Math.ceil(asGoal / (total_apply_starts / campaignDays))
rawDaysToGoalOf(formInputs, data) ==
    MathCeil(NDiv(Num(formInputs.asGoal),
                  NDiv(data.total_apply_starts, Num(campaignDaysOf(formInputs)))))

\* daysToGoal = Math.max(rawDaysToGoal, minDuration)
daysToGoalOf(formInputs, data) ==
    MathMax(rawDaysToGoalOf(formInputs, data), minDurationOf(formInputs))

\* goalStatus with budgetExhausted compared to the whole budget
goalStatusOf_NoMargin(formInputs, data) ==
    [cpasGoalMet |-> IF JsTruthy(formInputs.cpasGoal)
                     THEN NLe(data.cpas, formInputs.cpasGoal) ELSE TRUE,
     asGoalMet |-> NLe(Num(formInputs.asGoal), data.total_apply_starts),
     budgetExhausted |-> NLe(Num(formInputs.budget), data.total_spend)]

\* goalStatus of the result
goalStatusOf(formInputs, data) ==
    [cpasGoalMet |-> IF JsTruthy(formInputs.cpasGoal)
                     THEN NLe(data.cpas, formInputs.cpasGoal) ELSE TRUE,
     asGoalMet |-> NLe(Num(formInputs.asGoal), data.total_apply_starts),
     budgetExhausted |-> NLe(NMul(Num(formInputs.budget), Norm(95, 100)), data.total_spend)]

\* the PredictionResults built from a successful response
predictionResults(formInputs, data) ==
    [estimatedCPAS |-> data.cpas,
     projectedAS |-> data.total_apply_starts,
     budgetSpend |-> data.total_spend,
     daysToGoal |-> daysToGoalOf(formInputs, data),
     goalStatus |-> goalStatusOf(formInputs, data),
     confidence |-> IF IsNumber(data.confidence) THEN data.confidence ELSE Norm(95, 100)]

\* JoveoRecommendations: end = start + daysToGoal - 1, then end.toISOString()
appropriateEndDateOf(formInputs, res) ==
    IF ~Truthy(res.daysToGoal) THEN [kind |-> "empty"]
    ELSE IF ~IsFinite(res.daysToGoal) THEN [kind |-> "RangeError"]
    ELSE [kind |-> "date", date |-> formInputs.startDate + res.daysToGoal.n - 1]

InitHook ==
    /\ juneData = NoData
    /\ AggOff
    /\ FormOff
    /\ ScOff
    /\ tcInputs = null
    /\ results = null
    /\ isCalculating = FALSE
    /\ calls = <<>>
    /\ appropriateEndDate = undefined
    /\ PacingOff
    /\ QualityOff
    /\ SliderOff

\* a handler that sets the inputs state on the first calculation only
onCalculate_KeepsInputs(formInputs) ==
    /\ Len(calls) < MaxCalls
    /\ tcInputs' = IF tcInputs = null THEN formInputs ELSE tcInputs
    /\ isCalculating' = TRUE
    /\ calls' = Append(calls, [pc |-> "timer", inputs |-> formInputs, requests |-> 0,
                               response |-> "none", data |-> undefined,
                               returned |-> undefined])
    /\ UNCHANGED <<results, appropriateEndDate>>

\* the onCalculate prop of InputForm, what handleCalculate does to the hook:
\* setInputs(formInputs), then calculatePredictions up to its timer
onCalculate(formInputs) ==
    /\ Len(calls) < MaxCalls
    /\ tcInputs' = formInputs
    /\ isCalculating' = TRUE
    /\ calls' = Append(calls, [pc |-> "timer", inputs |-> formInputs, requests |-> 0,
                               response |-> "none", data |-> undefined,
                               returned |-> undefined])
    /\ UNCHANGED <<results, appropriateEndDate>>

\* handleCalculate called with inputs that passed the form
handleCalculate(formInputs) ==
    /\ onCalculate(formInputs)
    /\ UNCHANGED exceptHook

\* the 1 s timer of a call fired: the call issues its request
calculatePredictionsFetch(c) ==
    /\ calls[c].pc = "timer"
    /\ calls' = [calls EXCEPT ![c].pc = "fetch", ![c].requests = @ + 1]
    /\ UNCHANGED <<tcInputs, results, isCalculating, appropriateEndDate, exceptHook>>

\* resp.ok: the call builds the results, sets and returns them
calculatePredictionsOk(c, data) ==
    /\ calls[c].pc = "fetch"
    /\ results' = predictionResults(calls[c].inputs, data)
    /\ calls' = [calls EXCEPT ![c].pc = "done", ![c].response = "ok",
                                ![c].data = data, ![c].returned = results']
    /\ isCalculating' = FALSE
    /\ UNCHANGED <<tcInputs, appropriateEndDate, exceptHook>>

\* a catch block that leaves the results state as it is
calculatePredictionsCatch_KeepsResults(c, response) ==
    /\ results' = results
    /\ calls' = [calls EXCEPT ![c].pc = "done", ![c].response = response,
                                ![c].returned = null]
    /\ isCalculating' = FALSE
    /\ UNCHANGED <<tcInputs, appropriateEndDate, exceptHook>>

\* the catch block and finally: setResults(null), return null
calculatePredictionsCatch(c, response) ==
    /\ results' = null
    /\ calls' = [calls EXCEPT ![c].pc = "done", ![c].response = response,
                                ![c].returned = null]
    /\ isCalculating' = FALSE
    /\ UNCHANGED <<tcInputs, appropriateEndDate, exceptHook>>

\* !resp.ok: the call throws 'Backend prediction failed' into its catch block
calculatePredictionsNotOk(c) ==
    /\ calls[c].pc = "fetch"
    /\ calculatePredictionsCatch(c, "notOk")

\* fetch or resp.json() rejected: the catch block
calculatePredictionsRejected(c) ==
    /\ calls[c].pc = "fetch"
    /\ calculatePredictionsCatch(c, "rejected")

\* TradingCalculator renders JoveoRecommendations when results is set
JoveoRecommendations ==
    /\ results # null
    /\ appropriateEndDate' = appropriateEndDateOf(tcInputs, results)
    /\ UNCHANGED <<tcInputs, results, isCalculating, calls, exceptHook>>

NextHook ==
    \/ \E formInputs \in HookInputs : handleCalculate(formInputs)
    \/ \E c \in DOMAIN calls : calculatePredictionsFetch(c)
    \/ \E c \in DOMAIN calls : \E data \in ResponseData : calculatePredictionsOk(c, data)
    \/ \E c \in DOMAIN calls : calculatePredictionsNotOk(c)
    \/ \E c \in DOMAIN calls : calculatePredictionsRejected(c)
    \/ JoveoRecommendations

SpecHook == InitHook /\ [][NextHook]_vars

-----------------------------------------------------------------------------
(* Claims about calculatePredictions *)

\* the calls that returned a result built from a successful response
SucceededCalls == {c \in DOMAIN calls : calls[c].pc = "done" /\ calls[c].returned # null}

\* k is max(ceil(goal * days / total), 7, days) for whole numbers and total > 0
IsDaysToGoal(k, goal, days, total) ==
    /\ k >= 7
    /\ k >= days
    /\ k * total >= goal * days
    /\ (k > 7 /\ k > days) => (k - 1) * total < goal * days

C9_DaysToGoalFinite ==
    /\ \A c \in SucceededCalls : IsFinite(calls[c].returned.daysToGoal)
    /\ appropriateEndDate # [kind |-> "RangeError"]

\* C11: in every returned result cpasGoalMet is true iff no cpasGoal was given
\* or cpas <= cpasGoal, asGoalMet iff total_apply_starts >= asGoal, and
\* budgetExhausted iff total_spend >= 0.95 * budget
C11_GoalStatusFlags ==
    \A c \in SucceededCalls :
        LET res == calls[c].returned
            given == calls[c].inputs
            cpas == res.estimatedCPAS
            total == res.projectedAS
            spend == res.budgetSpend
        IN  /\ res.goalStatus.cpasGoalMet =
                  (\/ given.cpasGoal = undefined
                   \/ cpas.n * given.cpasGoal.d <= given.cpasGoal.n * cpas.d)
            /\ res.goalStatus.asGoalMet = (total.n >= given.asGoal * total.d)
            /\ res.goalStatus.budgetExhausted = (spend.n * 100 >= 95 * given.budget * spend.d)

\* C11 witness: a returned result with a cpasGoal that is not met, an apply
\* start goal that is not met and a spend of exactly 0.95 * budget
C11_Witness ==
    \E c \in SucceededCalls :
        /\ calls[c].inputs.cpasGoal # undefined
        /\ ~calls[c].returned.goalStatus.cpasGoalMet
        /\ ~calls[c].returned.goalStatus.asGoalMet
        /\ calls[c].returned.goalStatus.budgetExhausted
        /\ calls[c].returned.budgetSpend = Norm(95 * calls[c].inputs.budget, 100)

\* the responses that are failures: a non-2xx status, a transport failure
FailedResponses == {"notOk", "rejected"}

\* C12: when the remote call returns a non-2xx response or fails in transport,
\* calculatePredictions sets the hook's results to null and returns null (it
\* does not throw), and it issues no further request: the call has made its
\* one request and stays completed
C12_FailureReturnsNull ==
    [][\A c \in DOMAIN calls :
          /\ (calls[c].pc = "fetch" /\ calls'[c].response \in FailedResponses) =>
                /\ results' = null
                /\ calls'[c].pc = "done"
                /\ calls'[c].returned = null
                /\ calls'[c].requests = 1
          /\ calls[c].pc = "done" => calls'[c] = calls[c]]_vars

\* C12 witness: a call failed after another call had succeeded, its return
\* value is null and the results state is null
C12_Witness ==
    \E a, b \in DOMAIN calls :
        /\ calls[a].response = "ok"
        /\ calls[b].response \in FailedResponses
        /\ calls[b].returned = null
        /\ calls[b].requests = 1
        /\ results = null

\* C13: evaluations may overlap, and the failure of one evaluation never clears
\* or replaces the result delivered by another evaluation that succeeded: when
\* call b fails while the results state holds what call a delivered, a having
\* started after b and completed before it, the results state stays as it is
C13_FailureKeepsDeliveredResult ==
    [][\A a, b \in DOMAIN calls :
          (/\ a > b
           /\ calls[a].response = "ok"
           /\ results = calls[a].returned
           /\ calls[b].pc = "fetch"
           /\ calls'[b].response \in FailedResponses)
          => results' = results]_vars

\* C17: the confidence of every result returned by calculatePredictions lies in
\* [0, 1]: it is the response's confidence when that is a number and 0.95 when
\* it is absent or not a number
C17_ConfidenceInUnitInterval ==
    \A c \in SucceededCalls :
        LET conf == calls[c].returned.confidence
            given == calls[c].data.confidence
        IN  /\ NLe(Num(0), conf)
            /\ NLe(conf, Num(1))
            /\ conf = IF IsNumber(given) THEN given ELSE Norm(95, 100)

-----------------------------------------------------------------------------
(* InputForm: the form state, its validation and its submit button *)

\* the value '' of an empty date input
NoDate == 0

\* what the user can type into the budget and the apply-start goal inputs
FormBudgets == {-5, 0, 100, 200}

FormGoals == {0, 50}

\* what the user can pick in the two date inputs
FormStartDates == {NoDate, DateOf(6, 1), DateOf(6, 5)}

FormEndDates == {NoDate, DateOf(6, 3), DateOf(6, 5), DateOf(6, 7)}

\* bound of the number of submissions of the form
MaxSubmits == 2

\* the initial formData
initialFormData ==
    [budget |-> 0, asGoal |-> 0, startDate |-> NoDate, endDate |-> NoDate,
     cpasGoal |-> undefined]

\* (end - start) / 86400000 + 1 < 7; with an empty date the days are NaN
durationWarning(startDate, endDate) ==
    IF startDate = NoDate \/ endDate = NoDate THEN FALSE
    ELSE (endDate - startDate) + 1 < 7

\* an isDurationValid that asks for the two dates only
isDurationValid_DatesPresent(fd) ==
    fd.startDate # NoDate /\ fd.endDate # NoDate

\* isDurationValid: both dates set and at least 7 days from start through end
isDurationValid(fd) ==
    IF fd.startDate = NoDate \/ fd.endDate = NoDate THEN FALSE
    ELSE (fd.endDate - fd.startDate) + 1 >= 7

validationError(description) ==
    [title |-> "Validation Error", description |-> description]

\* the toast validateForm raises, null when it raises none
validationToast(fd) ==
    IF fd.budget <= 0 THEN validationError("Budget must be greater than 0")
    ELSE IF fd.asGoal <= 0 THEN validationError("AS Goal must be greater than 0")
    ELSE IF fd.startDate = NoDate \/ fd.endDate = NoDate
         THEN validationError("Both start and end dates are required")
    ELSE IF fd.startDate >= fd.endDate
         THEN validationError("End date must be after start date")
    ELSE null

validateForm(fd) == validationToast(fd) = null

analysisStarted ==
    [title |-> "Analysis Started",
     description |-> "AI model is processing your campaign data..."]

\* the submit button: disabled={!isDurationValid() || isLoading}
submitDisabled == ~isDurationValid(formData) \/ isCalculating

InitForm ==
    /\ juneData = NoData
    /\ AggOff
    /\ ScOff
    /\ HookOff
    /\ PacingOff
    /\ QualityOff
    /\ SliderOff
    /\ formData = initialFormData
    /\ showDurationWarning = FALSE
    /\ toast = null
    /\ submits = 0

handleInputChange(field, value) ==
    /\ formData' = [formData EXCEPT ![field] = value]
    /\ UNCHANGED <<showDurationWarning, toast, submits, hookVars, exceptForm>>

handleStartDateChange(value) ==
    /\ formData' = [formData EXCEPT !.startDate = value]
    /\ showDurationWarning' =
          IF formData.endDate # NoDate THEN durationWarning(value, formData.endDate)
          ELSE showDurationWarning
    /\ UNCHANGED <<toast, submits, hookVars, exceptForm>>

handleEndDateChange(value) ==
    /\ formData' = [formData EXCEPT !.endDate = value]
    /\ showDurationWarning' =
          IF formData.startDate # NoDate THEN durationWarning(formData.startDate, value)
          ELSE showDurationWarning
    /\ UNCHANGED <<toast, submits, hookVars, exceptForm>>

\* a submit event of the form: the button is enabled, handleSubmit runs
handleSubmit ==
    /\ ~submitDisabled
    /\ submits < MaxSubmits
    /\ submits' = submits + 1
    /\ IF validateForm(formData)
       THEN /\ onCalculate(formData)
            /\ toast' = analysisStarted
       ELSE /\ toast' = validationToast(formData)
            /\ UNCHANGED hookVars
    /\ UNCHANGED <<formData, showDurationWarning, exceptForm>>

\* the response bodies the calculations of the form receive
FormResponses == {TypicalResponse}

NextForm ==
    \/ \E value \in FormBudgets : handleInputChange("budget", value)
    \/ \E value \in FormGoals : handleInputChange("asGoal", value)
    \/ \E value \in FormStartDates : handleStartDateChange(value)
    \/ \E value \in FormEndDates : handleEndDateChange(value)
    \/ handleSubmit
    \/ \E c \in DOMAIN calls : calculatePredictionsFetch(c)
    \/ \E c \in DOMAIN calls : \E data \in FormResponses : calculatePredictionsOk(c, data)
    \/ \E c \in DOMAIN calls : calculatePredictionsNotOk(c)
    \/ \E c \in DOMAIN calls : calculatePredictionsRejected(c)

SpecForm == InitForm /\ [][NextForm]_vars

\* inputs the form has to reject: budget <= 0, asGoal <= 0, a missing date,
\* startDate >= endDate, or fewer than 7 days from start through end
InvalidInputs(fd) ==
    \/ fd.budget <= 0
    \/ fd.asGoal <= 0
    \/ fd.startDate = NoDate
    \/ fd.endDate = NoDate
    \/ fd.startDate >= fd.endDate
    \/ (fd.endDate - fd.startDate) + 1 < 7

\* C14: the form never invokes the forecast with invalid inputs (budget <= 0,
\* asGoal <= 0, startDate >= endDate, or a duration under 7 days): no call of
\* calculatePredictions is ever started with them, and a submission of invalid
\* inputs changes neither the results nor any other state of the hook
C14_FormRejectsInvalidInputs ==
    [][/\ \A c \in DOMAIN calls' : ~InvalidInputs(calls'[c].inputs)
       /\ (submits' > submits /\ InvalidInputs(formData)) =>
              /\ results' = results
              /\ calls' = calls
              /\ isCalculating' = isCalculating
              /\ tcInputs' = tcInputs]_vars

\* C14 witness: a submission was rejected while results of an earlier, accepted
\* submission were in place
C14_Witness ==
    /\ submits = 2
    /\ Len(calls) = 1
    /\ results # null
    /\ InvalidInputs(formData)
    /\ toast = validationError("Budget must be greater than 0")

-----------------------------------------------------------------------------
(* PacingAnalysis: the daily series and their scaling to the projected totals *)

\* marketSeasonality of PacingAnalysis, in hundredths, by month
pacingSeasonality == <<90, 95, 100, 105, 110, 120, 115, 110, 100, 105, 120, 130>>

\* seasonalityFactor = marketSeasonality[month] || 1.0
pacingSeasonalityFactor(inputs) == Norm(pacingSeasonality[MonthOf(inputs.startDate)], 100)

\* campaignDays = Math.ceil((endDate - startDate) / one day)
pacingCampaignDays(inputs) == inputs.endDate - inputs.startDate

\* juneCPASByDate[juneDate] ?? null, the key being the day of the month
juneCPASByDate(data, dayOfMonth, seasonalityFactor) ==
    IF /\ dayOfMonth \in DOMAIN data
       /\ data[dayOfMonth].APPLY_START > 0
       /\ data[dayOfMonth].CDSPEND > 0
    THEN NMul(NDiv(Num(data[dayOfMonth].CDSPEND), Num(data[dayOfMonth].APPLY_START)),
              seasonalityFactor)
    ELSE null

\* juneASByDate[juneDate] ?? null, the key being the day of the month
juneASByDate(data, dayOfMonth) ==
    IF dayOfMonth \in DOMAIN data /\ data[dayOfMonth].APPLY_START > 0
    THEN Num(data[dayOfMonth].APPLY_START) ELSE null

\* juneSpendByDate[juneDate] ?? null
juneSpendByDate(data, dayOfMonth, seasonalityFactor) ==
    IF dayOfMonth \in DOMAIN data /\ data[dayOfMonth].CDSPEND > 0
    THEN NMul(Num(data[dayOfMonth].CDSPEND), seasonalityFactor) ELSE null

\* getJuneWeek('2025-06-dd'): '2025-06-31' parses to July 1 or to an invalid date
pacingWeekOf(dayOfMonth, lenient) ==
    IF dayOfMonth <= 30 THEN Num(getJuneWeek(dayOfMonth))
    ELSE IF lenient THEN Num(getJuneWeek(1)) ELSE NaN

\* chartData: one point per i in 0..campaignDays-1
chartDataOf(data, inputs, lenient) ==
    [i \in 1..pacingCampaignDays(inputs) |->
        LET dayOfMonth == DayOfMonth(inputs.startDate + i - 1)
        IN  [day |-> inputs.startDate + i - 1,
             week |-> pacingWeekOf(dayOfMonth, lenient),
             cpas |-> juneCPASByDate(data, dayOfMonth, pacingSeasonalityFactor(inputs)),
             historicDate |-> dayOfMonth]]

\* chartDataAS: one point per i in 0..campaignDays-1
chartDataASOf(data, inputs, lenient) ==
    [i \in 1..pacingCampaignDays(inputs) |->
        LET dayOfMonth == DayOfMonth(inputs.startDate + i - 1)
        IN  [day |-> inputs.startDate + i - 1,
             week |-> pacingWeekOf(dayOfMonth, lenient),
             as |-> juneASByDate(data, dayOfMonth),
             historicDate |-> dayOfMonth]]

\* chartDataSpend: one point per i in 0..campaignDays-1
chartDataSpendOf(data, inputs, lenient) ==
    [i \in 1..pacingCampaignDays(inputs) |->
        LET dayOfMonth == DayOfMonth(inputs.startDate + i - 1)
        IN  [day |-> inputs.startDate + i - 1,
             week |-> pacingWeekOf(dayOfMonth, lenient),
             spend |-> juneSpendByDate(data, dayOfMonth, pacingSeasonalityFactor(inputs)),
             historicDate |-> dayOfMonth]]

\* x || 0 for a number or null
OrZero(x) == IF IsNumber(x) /\ Truthy(x) THEN x ELSE Num(0)

\* chartDataAS.reduce((sum, d) => sum + (d.as || 0), 0)
totalRawASOf(series) == SumSeq([i \in DOMAIN series |-> OrZero(series[i].as)])

\* chartDataSpend.reduce((sum, d) => sum + (d.spend || 0), 0)
totalRawSpendOf(series) == SumSeq([i \in DOMAIN series |-> OrZero(series[i].spend)])

\* the scaling factor with its ratio inverted
scalingFactorOf_Inverted(projected, totalRaw) ==
    IF NLt(Num(0), totalRaw) THEN NDiv(totalRaw, projected) ELSE Num(1)

\* totalRaw > 0 ? projected / totalRaw : 1
scalingFactorOf(projected, totalRaw) ==
    IF NLt(Num(0), totalRaw) THEN NDiv(projected, totalRaw) ELSE Num(1)

\* chartDataASScaled
chartDataASScaledOf(series, factor) ==
    [i \in DOMAIN series |->
        [series[i] EXCEPT !.as = IF @ # null THEN NMul(@, factor) ELSE null]]

\* chartDataSpendScaled
chartDataSpendScaledOf(series, factor) ==
    [i \in DOMAIN series |->
        [series[i] EXCEPT !.spend = IF @ # null THEN NMul(@, factor) ELSE null]]

\* data.slice(begin, end) of a 0-based array for 0 <= begin, as the 1-based SubSeq
Slice(data, begin, end) ==
    SubSeq(data, begin + 1, IF end < Len(data) THEN end ELSE Len(data))

\* Math.max(0, i - window + 1) for the 0-based index of the 1-based i
windowStart(i, window) ==
    IF (i - 1) - window + 1 > 0 THEN (i - 1) - window + 1 ELSE 0

\* movingAverage: the 7-day average of cpas, kept as cpasMA
movingAverage(data, window) ==
    [i \in DOMAIN data |->
        LET slice == Slice(data, windowStart(i, window), (i - 1) + 1)
            valid == SelectSeq(slice, LAMBDA x : x.cpas # null /\ x.cpas # undefined)
            avg == IF Len(valid) > 0
                   THEN NDiv(SumSeq([j \in DOMAIN valid |-> valid[j].cpas]), Num(Len(valid)))
                   ELSE null
        IN  data[i] @@ ("cpasMA" :> avg)]

\* a moving average that counts a missing value as zero
movingAverageKey_NullAsZero(data, key, window) ==
    [i \in DOMAIN data |->
        LET slice == Slice(data, windowStart(i, window), (i - 1) + 1)
            avg == NDiv(SumSeq([j \in DOMAIN slice |-> OrZero(slice[j][key])]),
                        Num(Len(slice)))
        IN  data[i] @@ ((key \o "MA") :> avg)]

\* movingAverageKey: the 7-day average of data[..][key], kept as `${key}MA`
movingAverageKey(data, key, window) ==
    [i \in DOMAIN data |->
        LET slice == Slice(data, windowStart(i, window), (i - 1) + 1)
            valid == SelectSeq(slice, LAMBDA x : x[key] # null /\ x[key] # undefined)
            avg == IF Len(valid) > 0
                   THEN NDiv(SumSeq([j \in DOMAIN valid |-> valid[j][key]]), Num(Len(valid)))
                   ELSE null
        IN  data[i] @@ ((key \o "MA") :> avg)]

\* the rows of June 5 in the reference datasets
FifthDayRows == {[CDSPEND |-> 0, APPLY_START |-> 0], [CDSPEND |-> 2, APPLY_START |-> 1]}

\* reference datasets whose rows with data fall on June 1, June 5 and June 8
PacingDatasets ==
    { [d \in SampleDays \cup {5} |->
          IF d = 1 THEN first ELSE IF d = 5 THEN fifth ELSE IF d = 8 THEN second
          ELSE [CDSPEND |-> 0, APPLY_START |-> 0]] :
        first \in Rows, fifth \in FifthDayRows, second \in Rows }

\* June 1 to 8, June 9 to 15 (no reference day with data), July 25 to August 9
PacingWindows ==
    {<<DateOf(6, 1), DateOf(6, 8)>>, <<DateOf(6, 9), DateOf(6, 15)>>,
     <<DateOf(7, 25), DateOf(8, 9)>>}

PacingInputs ==
    { [budget |-> 100, asGoal |-> 50, cpasGoal |-> undefined,
       startDate |-> w[1], endDate |-> w[2]] : w \in PacingWindows }

\* the results prop: the hook's result of a successful response
PacingResponses ==
    [cpas : {Num(5)}, total_apply_starts : {Num(0), Num(10)},
     total_spend : {Num(95)}, confidence : {undefined}]

\* bound of the number of renders of one mounted component
MaxRenders == 2

InitPacing ==
    /\ juneData \in PacingDatasets
    /\ AggOff
    /\ FormOff
    /\ ScOff
    /\ HookOff
    /\ QualityOff
    /\ SliderOff
    /\ pacingPc = "render"
    /\ pacingInputs \in PacingInputs
    /\ \E data \in PacingResponses : pacingResults = predictionResults(pacingInputs, data)
    /\ chartDataAS = <<>>
    /\ chartDataSpend = <<>>
    /\ chartDataASScaled = <<>>
    /\ chartDataSpendScaled = <<>>
    /\ chartDataWithMA = <<>>
    /\ chartDataASWithMA = <<>>
    /\ chartDataSpendWithMA = <<>>
    /\ pacingRenders = 0

\* one render of the component body
PacingAnalysis(lenient) ==
    /\ pacingPc = "render"
    /\ chartDataAS' = chartDataASOf(juneData, pacingInputs, lenient)
    /\ chartDataSpend' = chartDataSpendOf(juneData, pacingInputs, lenient)
    /\ chartDataASScaled' =
          chartDataASScaledOf(chartDataAS',
              scalingFactorOf(pacingResults.projectedAS, totalRawASOf(chartDataAS')))
    /\ chartDataSpendScaled' =
          chartDataSpendScaledOf(chartDataSpend',
              scalingFactorOf(pacingResults.budgetSpend, totalRawSpendOf(chartDataSpend')))
    /\ chartDataWithMA' = movingAverage(chartDataOf(juneData, pacingInputs, lenient), 7)
    /\ chartDataASWithMA' = movingAverageKey(chartDataAS', "as", 7)
    /\ chartDataSpendWithMA' = movingAverageKey(chartDataSpend', "spend", 7)
    /\ pacingPc' = "idle"
    /\ pacingRenders' = pacingRenders + 1
    /\ UNCHANGED <<pacingInputs, pacingResults, exceptPacing>>

\* the parent passes new props: a render is due
pacingPropsChange(inputs, data) ==
    /\ pacingPc = "idle"
    /\ pacingRenders < MaxRenders
    /\ <<inputs, predictionResults(inputs, data)>> # <<pacingInputs, pacingResults>>
    /\ pacingInputs' = inputs
    /\ pacingResults' = predictionResults(inputs, data)
    /\ pacingPc' = "render"
    /\ UNCHANGED <<chartDataAS, chartDataSpend, chartDataASScaled, chartDataSpendScaled,
                   chartDataWithMA, chartDataASWithMA, chartDataSpendWithMA,
                   pacingRenders, exceptPacing>>

NextPacing ==
    \/ \E lenient \in BOOLEAN : PacingAnalysis(lenient)
    \/ \E inputs \in PacingInputs, data \in PacingResponses : pacingPropsChange(inputs, data)

SpecPacing == InitPacing /\ [][NextPacing]_vars

-----------------------------------------------------------------------------
(* Claims about the pacing series *)

\* |a - b| <= 0.5% of |b|
WithinHalfPercent(a, b) ==
    /\ IsFinite(a) /\ IsFinite(b)
    /\ LET diff == NSub(a, b)
       IN  Abs(diff.n) * b.d * 1000 <= 5 * Abs(b.n) * diff.d

\* the sums of the scaled series, a null point adding nothing
ScaledASSum == totalRawASOf(chartDataASScaled)

ScaledSpendSum == totalRawSpendOf(chartDataSpendScaled)

\* the campaign days that map to a reference day with apply starts / with spend
DaysWithAS == {i \in DOMAIN chartDataAS : chartDataAS[i].as # null}

DaysWithSpend == {i \in DOMAIN chartDataSpend : chartDataSpend[i].spend # null}

\* C4 as stated: for every window and every result the scaled conversions sum to
\* projectedAS and the scaled spend to the projected spend, within 0.5%, also
\* when no campaign day maps to a reference day with data
C4_PacingConservation ==
    pacingPc = "idle" =>
        /\ WithinHalfPercent(ScaledASSum, pacingResults.projectedAS)
        /\ WithinHalfPercent(ScaledSpendSum, pacingResults.budgetSpend)

\* C4 amended: the scaled conversions sum to projectedAS within 0.5% when some
\* campaign day maps to a reference day with apply starts, and the scaled spend
\* to the projected spend when some campaign day maps to a day with spend; with
\* no such day the series is left unscaled and sums to 0
C4_PacingConservationWithData ==
    pacingPc = "idle" =>
        /\ IF DaysWithAS # {}
           THEN WithinHalfPercent(ScaledASSum, pacingResults.projectedAS)
           ELSE ScaledASSum = Num(0)
        /\ IF DaysWithSpend # {}
           THEN WithinHalfPercent(ScaledSpendSum, pacingResults.budgetSpend)
           ELSE ScaledSpendSum = Num(0)

\* C4 witness: a window across two reference days with different apply starts
\* and spend, and a day 31 without data, was scaled to non-zero totals
C4_Witness ==
    /\ pacingPc = "idle"
    /\ Cardinality(DaysWithAS) >= 2
    /\ Cardinality(DaysWithSpend) >= 2
    /\ \E i \in DOMAIN chartDataAS : chartDataAS[i].historicDate = 31
    /\ \E i, j \in DaysWithSpend : chartDataSpend[i].spend # chartDataSpend[j].spend
    /\ NLt(Num(0), pacingResults.projectedAS)
    /\ ScaledASSum # totalRawASOf(chartDataAS)

\* the points of the three daily series of the last render
PacingPoints ==
    {chartDataAS[i] : i \in DOMAIN chartDataAS}
        \cup {chartDataSpend[i] : i \in DOMAIN chartDataSpend}

\* C15: the week-of-month of a date is floor((dayOfMonth - 1) / 7) + 1 clipped
\* to 1..4: for every day of month 1..31 it is one of 1, 2, 3, 4, and the days
\* 29-31 are in week 4
C15_WeekOfMonthClipped ==
    \A point \in PacingPoints :
        LET dayOfMonth == DayOfMonth(point.day)
            week == ((dayOfMonth - 1) \div 7) + 1
        IN  /\ point.week \in {Num(1), Num(2), Num(3), Num(4)}
            /\ point.week = Num(IF week > 4 THEN 4 ELSE week)

\* C19: every campaign day is mapped to a date that exists in June 2025 (days
\* 1..30) with the same day of month, a day of month 31 being wrapped or
\* clamped into June
C19_HistoricDateExists ==
    \A point \in PacingPoints :
        LET dayOfMonth == DayOfMonth(point.day)
        IN  /\ point.historicDate \in 1..30
            /\ dayOfMonth <= 30 => point.historicDate = dayOfMonth

\* C20: the daily series have one point per campaign day: their length is the
\* number of days from startDate through endDate inclusive, the duration the
\* form holds against the 7-day minimum and the scenario formula uses as numDays
C20_SeriesLengthIsDuration ==
    pacingPc = "idle" =>
        /\ Len(chartDataAS) = numDaysOf(pacingInputs)
        /\ Len(chartDataSpend) = numDaysOf(pacingInputs)

\* the three series with their moving average: <<series, key, key of the average>>
SeriesWithMA ==
    {<<chartDataWithMA, "cpas", "cpasMA">>, <<chartDataASWithMA, "as", "asMA">>,
     <<chartDataSpendWithMA, "spend", "spendMA">>}

\* the indices among max(1, i - 6)..i whose value is there
ValidInWindow(series, key, i) ==
    {j \in (IF i > 6 THEN i - 6 ELSE 1)..i : series[j][key] # null}

\* C18: in each daily series (CPAS, apply starts, spend) the moving average at
\* index i is the mean of the non-null values among the points max(0, i-6)..i,
\* and it is null, not zero, when all of these points are null
C18_MovingAverage ==
    \A s \in SeriesWithMA :
        \A i \in DOMAIN s[1] :
            LET valid == ValidInWindow(s[1], s[2], i)
                order == SortedSeq(valid)
                total == SumSeq([k \in DOMAIN order |-> s[1][order[k]][s[2]]])
            IN  IF valid = {} THEN s[1][i][s[3]] = null
                ELSE s[1][i][s[3]] = NDiv(total, Num(Cardinality(valid)))

\* C18 witness: a series of more than 7 points in which one average is taken
\* over two different values and skips nulls, an earlier value has left the
\* window, and another average is null because its whole window is null
C18_Witness ==
    \E s \in SeriesWithMA :
        /\ \E i \in DOMAIN s[1] :
              /\ i > 7
              /\ \E j \in 1..(i - 7) : s[1][j][s[2]] # null
              /\ Cardinality(ValidInWindow(s[1], s[2], i)) = 2
              /\ \E j, k \in ValidInWindow(s[1], s[2], i) : s[1][j][s[2]] # s[1][k][s[2]]
              /\ s[1][i][s[3]] # null
        /\ \E i \in DOMAIN s[1] : i >= 7 /\ s[1][i][s[3]] = null

-----------------------------------------------------------------------------
(* JobImpactAnalysis: the job scores, the impact scenario and the what-if cards *)

\* a job of /api/job-quality-scores: 'Title Appropriate?', 'Salary Mentioned?',
\* 'Phone Number in JD', 'JD Formatted Correctly?'
Jobs ==
    [title : {"Yes", "Partially", "No"}, salary : {"Yes", "Partially", "No"},
     phone : {"No", "Yes"}, jd : {"Yes", "Partially", "No"}]

\* bound of the length of the job list
MaxJobs == 2

\* the jobs that follow the first job of a list: a job with a partial title and
\* no other credit
OtherJobs == {[title |-> "Partially", salary |-> "No", phone |-> "Yes", jd |-> "No"]}

\* the job lists of at most MaxJobs jobs: the empty list, and any job followed
\* by jobs of OtherJobs
JobLists ==
    {<<>>} \cup UNION {{<<first>> \o rest : first \in Jobs, rest \in [1..(len - 1) -> OtherJobs]} :
                        len \in 1..MaxJobs}

\* the metrics of the four cards, in their order
CardMetrics == <<"title", "salary", "phone", "jd">>

\* card.best(job[card.metric])
cardBest(metric, job) == IF metric = "phone" THEN job.phone = "No" ELSE job[metric] = "Yes"

\* newJob: the job with the card's metric at its best value
simulatedJob(metric, job) == [job EXCEPT ![metric] = IF metric = "phone" THEN "No" ELSE "Yes"]

\* points that give a partial title or description full credit, in halves
pointsOf_PartialAsFull(job) ==
    (IF job.title \in {"Yes", "Partially"} THEN 2 ELSE 0)
    + (IF job.salary = "Yes" THEN 2 ELSE 0)
    + (IF job.phone = "No" THEN 2 ELSE 0)
    + (IF job.jd \in {"Yes", "Partially"} THEN 2 ELSE 0)

\* points of a job, in halves
pointsOf(job) ==
    (IF job.title = "Yes" THEN 2 ELSE IF job.title = "Partially" THEN 1 ELSE 0)
    + (IF job.salary = "Yes" THEN 2 ELSE 0)
    + (IF job.phone = "No" THEN 2 ELSE 0)
    + (IF job.jd = "Yes" THEN 2 ELSE IF job.jd = "Partially" THEN 1 ELSE 0)

\* newJob['Job Quality Score'] = Math.round((points / 4) * 100)
jobQualityScore(job) == MathRound(NMul(Norm(pointsOf(job), 8), Num(100)))

\* simulatedScores of a card: the 'Job Quality Score' of every newJob
simulatedScores(metric, jobs) ==
    [i \in DOMAIN jobs |-> jobQualityScore(simulatedJob(metric, jobs[i]))]

\* avgSimulatedQuality of a card
avgSimulatedQuality(metric, jobs) ==
    NDiv(SumSeq(simulatedScores(metric, jobs)),
         Num(IF Len(jobs) # 0 THEN Len(jobs) ELSE 1))

\* improvedCPAS of a card
improvedCPASOf(imp, avgQuality) ==
    IF imp = null THEN undefined
    ELSE IF Truthy(imp.overall_quality_score) /\ Truthy(imp.cpas_if_perfect_quality)
    THEN LET relDelta == NDiv(NSub(imp.cpas_if_perfect_quality, imp.cpas_current),
                              NSub(Num(100), imp.overall_quality_score))
         IN  NAdd(imp.cpas_current, NMul(relDelta, NSub(avgQuality, imp.overall_quality_score)))
    ELSE imp.cpas_current

\* percentImprovement of a card
percentImprovementOf(imp, improvedCPAS) ==
    IF imp # null /\ NLt(Num(0), imp.cpas_current)
    THEN MathRound(NDiv(NMul(Num(100), NSub(imp.cpas_current, improvedCPAS)), imp.cpas_current))
    ELSE Num(0)

\* one card of the render
cardOf(metric, jobs, imp) ==
    [key |-> metric,
     impactedCount |-> Cardinality({i \in DOMAIN jobs : ~cardBest(metric, jobs[i])}),
     simulatedScores |-> simulatedScores(metric, jobs),
     avgSimulatedQuality |-> avgSimulatedQuality(metric, jobs),
     improvedCPAS |-> improvedCPASOf(imp, avgSimulatedQuality(metric, jobs)),
     percentImprovement |->
         percentImprovementOf(imp, improvedCPASOf(imp, avgSimulatedQuality(metric, jobs)))]

\* the four cards of a render
cardsOf(jobs, imp) == [k \in DOMAIN CardMetrics |-> cardOf(CardMetrics[k], jobs, imp)]

\* props.inputs of the job impact view
QualityInputs ==
    { [budget |-> budget, asGoal |-> 50, cpasGoal |-> undefined,
       startDate |-> DateOf(6, 1), endDate |-> DateOf(6, 30)] : budget \in {100, 200} }

\* bodies of a successful response of /api/job-impact-scenarios
ImpactResponses ==
    [overall_quality_score : {Num(0), Num(50), Num(100)},
     cpas_current : {Num(5)},
     cpas_if_perfect_quality : {Num(0), Num(4), Num(5)},
     as_current : {Num(20)},
     as_if_perfect_quality : {Num(25)}]

\* the cards of every job list and impact response; the comparison makes TLC
\* tabulate the function once instead of evaluating cardsOf at every lookup
cardsTable ==
    LET table == [jobs \in JobLists, imp \in ImpactResponses \cup {null} |->
                     cardsOf(jobs, imp)]
    IN  IF table = table THEN table ELSE table

\* bound of the number of job-impact-scenario requests of one mounted component
MaxImpactRequests == 2

InitQuality ==
    /\ juneData = NoData
    /\ AggOff
    /\ FormOff
    /\ ScOff
    /\ HookOff
    /\ PacingOff
    /\ SliderOff
    /\ qualityInputs \in QualityInputs
    /\ jobScores = <<>>
    /\ loadingScores = FALSE
    /\ errorScores = null
    /\ scoresPc = "effect"
    /\ impact = null
    /\ loadingImpact = FALSE
    /\ errorImpact = null
    /\ impactEffectDue = TRUE
    /\ impactRequests = <<>>
    /\ cards = cardsTable[<<>>, null]

\* the mount effect: setLoadingScores(true), fetchJobQualityScores()
scoresEffect ==
    /\ scoresPc = "effect"
    /\ scoresPc' = "fetch"
    /\ loadingScores' = TRUE
    /\ UNCHANGED <<qualityInputs, jobScores, errorScores, impact, loadingImpact, errorImpact,
                   impactEffectDue, impactRequests, cards, exceptQuality>>

\* .then of fetchJobQualityScores: setJobScores(data.jobs || []), then the render
scoresResolved(jobs) ==
    /\ scoresPc = "fetch"
    /\ scoresPc' = "done"
    /\ jobScores' = jobs
    /\ loadingScores' = FALSE
    /\ cards' = cardsTable[jobScores', impact]
    /\ UNCHANGED <<qualityInputs, errorScores, impact, loadingImpact, errorImpact,
                   impactEffectDue, impactRequests, exceptQuality>>

\* .catch of fetchJobQualityScores
scoresRejected ==
    /\ scoresPc = "fetch"
    /\ scoresPc' = "done"
    /\ errorScores' = [string |-> "Failed to load job quality scores"]
    /\ loadingScores' = FALSE
    /\ UNCHANGED <<qualityInputs, jobScores, impact, loadingImpact, errorImpact,
                   impactEffectDue, impactRequests, cards, exceptQuality>>

\* the effect on inputs: setLoadingImpact(true), fetchJobImpactScenarios(...)
impactEffect ==
    /\ impactEffectDue
    /\ impactEffectDue' = FALSE
    /\ loadingImpact' = TRUE
    /\ impactRequests' = Append(impactRequests, [inputs |-> qualityInputs, pc |-> "pending"])
    /\ UNCHANGED <<qualityInputs, jobScores, loadingScores, errorScores, scoresPc, impact,
                   errorImpact, cards, exceptQuality>>

\* .then of fetchJobImpactScenarios: setImpact(data), then the render
impactResolved(r, data) ==
    /\ impactRequests[r].pc = "pending"
    /\ impactRequests' = [impactRequests EXCEPT ![r].pc = "resolved"]
    /\ impact' = data
    /\ loadingImpact' = FALSE
    /\ cards' = cardsTable[jobScores, impact']
    /\ UNCHANGED <<qualityInputs, jobScores, loadingScores, errorScores, scoresPc,
                   errorImpact, impactEffectDue, exceptQuality>>

\* .catch of fetchJobImpactScenarios
impactRejected(r) ==
    /\ impactRequests[r].pc = "pending"
    /\ impactRequests' = [impactRequests EXCEPT ![r].pc = "rejected"]
    /\ errorImpact' = [string |-> "Failed to load job impact scenarios"]
    /\ loadingImpact' = FALSE
    /\ UNCHANGED <<qualityInputs, jobScores, loadingScores, errorScores, scoresPc, impact,
                   impactEffectDue, cards, exceptQuality>>

\* the parent passes inputs with another budget, dates or goal: the effect is due
qualityPropsChange(inputs) ==
    /\ ~impactEffectDue
    /\ Len(impactRequests) < MaxImpactRequests
    /\ inputs # qualityInputs
    /\ qualityInputs' = inputs
    /\ impactEffectDue' = TRUE
    /\ UNCHANGED <<jobScores, loadingScores, errorScores, scoresPc, impact, loadingImpact,
                   errorImpact, impactRequests, cards, exceptQuality>>

\* what the three impact cards render: loading, the error, or the impact data
impactView ==
    IF loadingImpact THEN [kind |-> "loading"]
    ELSE IF errorImpact # null THEN [kind |-> "error", message |-> errorImpact]
    ELSE [kind |-> "data", impact |-> impact]

NextQuality ==
    \/ scoresEffect
    \/ \E jobs \in JobLists : scoresResolved(jobs)
    \/ scoresRejected
    \/ impactEffect
    \/ \E r \in DOMAIN impactRequests : \E data \in ImpactResponses : impactResolved(r, data)
    \/ \E r \in DOMAIN impactRequests : impactRejected(r)
    \/ \E inputs \in QualityInputs : qualityPropsChange(inputs)

SpecQuality == InitQuality /\ [][NextQuality]_vars

-----------------------------------------------------------------------------
(* Claims about the what-if cards *)

\* C7: when the overall quality score is 100, the improved CPAS of every
\* single-signal what-if card equals cpas_current exactly (no NaN, no Infinity),
\* for every job list and every value of cpas_if_perfect_quality
C7_PerfectScoreKeepsCPAS ==
    (impact # null /\ impact.overall_quality_score = Num(100)) =>
        \A k \in DOMAIN cards : cards[k].improvedCPAS = impact.cpas_current

\* the signals of job i as card k recomputes them: the card's signal at its best
\* value, the other three as the job has them
SignalsOf(k, i) ==
    [m \in {"title", "salary", "phone", "jd"} |->
        IF m = cards[k].key THEN (IF m = "phone" THEN "No" ELSE "Yes") ELSE jobScores[i][m]]

\* the signals with full credit and those with partial credit
FullCredit(sig) ==
    {m \in {"title", "salary", "jd"} : sig[m] = "Yes"} \cup {m \in {"phone"} : sig[m] = "No"}

PartialCredit(sig) == {m \in {"title", "jd"} : sig[m] = "Partially"}

\* (sum of the signal points) / 4 * 100
PointsScore(sig) ==
    Norm(100 * (2 * Cardinality(FullCredit(sig)) + Cardinality(PartialCredit(sig))), 8)

\* C21 as stated: for every job and every combination of the four signals the
\* recomputed per-job quality score equals (sum of signal points) / 4 * 100,
\* with full credit 1, partial credit 0.5 (title and description formatting
\* only) and no credit 0, and lies in 0..100
C21_ScoreIsPointsOverFour ==
    \A k \in DOMAIN cards : \A i \in DOMAIN cards[k].simulatedScores :
        LET score == cards[k].simulatedScores[i]
        IN  /\ score = PointsScore(SignalsOf(k, i))
            /\ NLe(Num(0), score) /\ NLe(score, Num(100))

\* C21 amended: the recomputed per-job quality score equals (sum of signal
\* points) / 4 * 100 rounded to the nearest integer (a half rounds up), with
\* the same credits, and lies in 0..100
C21_ScoreIsRoundedPointsOverFour ==
    \A k \in DOMAIN cards : \A i \in DOMAIN cards[k].simulatedScores :
        LET score == cards[k].simulatedScores[i]
        IN  /\ score = MathRound(PointsScore(SignalsOf(k, i)))
            /\ NLe(Num(0), score) /\ NLe(score, Num(100))

\* C21 witness: a card recomputed a job with a partial credit to 63 (from
\* 62.5), and a job with a partial salary got no credit for it
C21_Witness ==
    \E k \in DOMAIN cards : \E i \in DOMAIN cards[k].simulatedScores :
        /\ cards[k].simulatedScores[i] = Num(63)
        /\ PartialCredit(SignalsOf(k, i)) # {}
        /\ jobScores[i].salary = "Partially"

\* the unweighted mean of the per-job scores a card recomputed
SimulatedScore(k) ==
    NDiv(SumSeq(cards[k].simulatedScores), Num(Len(cards[k].simulatedScores)))

\* C22: for every overall quality score in [0, 100), 0 included, and every job
\* list, the improved CPAS of a single-signal what-if card equals
\* cpasCurrent + slope * (simulatedScore - overallQualityScore) with
\* slope = (cpasIfPerfectQuality - cpasCurrent) / (100 - overallQualityScore),
\* simulatedScore being the unweighted mean of the per-job scores recomputed
\* with that one signal at its best value
C22_ImprovedCPASIsInterpolation ==
    (/\ impact # null
     /\ NLe(Num(0), impact.overall_quality_score)
     /\ NLt(impact.overall_quality_score, Num(100))
     /\ jobScores # <<>>) =>
        \A k \in DOMAIN cards :
            LET slope == NDiv(NSub(impact.cpas_if_perfect_quality, impact.cpas_current),
                              NSub(Num(100), impact.overall_quality_score))
            IN  cards[k].improvedCPAS =
                    NAdd(impact.cpas_current,
                         NMul(slope, NSub(SimulatedScore(k), impact.overall_quality_score)))

\* C30: for every job list, the empty list shown while the job scores load or
\* after their fetch failed included, and every impact response with
\* 0 < overall_quality_score < 100 and cpas_if_perfect_quality <= cpas_current,
\* the improved CPAS of each what-if card lies between cpas_if_perfect_quality
\* and cpas_current inclusive
C30_ImprovedCPASNotWorse ==
    (/\ impact # null
     /\ NLt(Num(0), impact.overall_quality_score)
     /\ NLt(impact.overall_quality_score, Num(100))
     /\ NLe(impact.cpas_if_perfect_quality, impact.cpas_current)) =>
        \A k \in DOMAIN cards :
            /\ NLe(impact.cpas_if_perfect_quality, cards[k].improvedCPAS)
            /\ NLe(cards[k].improvedCPAS, impact.cpas_current)

\* C28: whenever the most recent job-impact-scenario request has succeeded, the
\* view shows the response data and not an error: the error of an earlier
\* failed request does not persist after a later successful one
C28_ErrorDoesNotPersist ==
    (/\ impactRequests # <<>>
     /\ impactRequests[Len(impactRequests)].pc = "resolved"
     /\ ~loadingImpact) =>
        /\ impactView.kind = "data"
        /\ impactView.impact # null


\* the calls of the hook instance that have not completed yet
callsInFlight == {c \in DOMAIN calls : calls[c].pc # "done"}

\* C26: isCalculating of a hook instance is true exactly while at least one
\* calculatePredictions call of that instance is in flight: never false while
\* a call is pending, false once all calls have completed.
C26_CalculatingWhileInFlight ==
    isCalculating = (callsInFlight # {})


\* C29: in the top-level calculator, whenever results is non-null (the result
\* tabs are rendered) inputs is non-null and is the input set of the most
\* recently submitted calculation; after a failed calculation results is null
\* (no tabs are rendered).
C29_TabsHaveCurrentInputs ==
    /\ results # null =>
          /\ tcInputs # null
          /\ calls # <<>>
          /\ tcInputs = calls[Len(calls)].inputs
    /\ (/\ calls # <<>>
        /\ calls[Len(calls)].pc = "done"
        /\ calls[Len(calls)].response \in FailedResponses) => results = null

\* a second calculation with other inputs was submitted while the tabs of the
\* first one are rendered
C29_Witness ==
    /\ Len(calls) = 2
    /\ calls[1].response = "ok"
    /\ calls[2].inputs # calls[1].inputs
    /\ results # null
    /\ tcInputs = calls[2].inputs


\* the scenario list a newly mounted component evaluates for these props
firstEvaluation(inputs, confidence) ==
    adjustConservative(calculatedScenarios(inputs, confidence))

scenarioSeasonalityFactor(inputs) == Norm(seasonality[MonthOf(inputs.startDate)], 100)

\* C25: for every start month, the seasonality factor the scenario formula
\* applies to projected CPAS is the value the pacing generator applies to the
\* historical daily CPAS and spend for that month.
C25_OneSeasonalityTable ==
    pacingInputs # null =>
        pacingSeasonalityFactor(pacingInputs) = scenarioSeasonalityFactor(pacingInputs)


\* the scenario of the worked example: the reference budget, goal and duration,
\* June 1 to June 30
ReferenceInputs ==
    [budget |-> CLIENT_BUDGET, asGoal |-> CLIENT_AS_GOAL_HISTORICAL,
     startDate |-> DateOf(6, 1), endDate |-> DateOf(6, 30)]

\* a value in units, rounded to thousandths
Thousandths(x) == (x * 1000 + Scale \div 2) \div Scale

\* the duration, budget and goal factors of the reference scenario are 1.0, its
\* seasonality is 1.0, the projected CPAS of Current Plan is basePredictedCPAS,
\* 6.818 to three decimals
ReferenceFactorsAreOne ==
    /\ numDaysOf(ReferenceInputs) = CLIENT_DURATION
    /\ MathPow(CLIENT_DURATION, numDaysOf(ReferenceInputs), ALPHA_ROOT) = Scale
    /\ MathPow(scenarios[2].budget, CLIENT_BUDGET, GAMMA_ROOT) = Scale
    /\ MathPow(ReferenceInputs.asGoal, CLIENT_AS_GOAL_HISTORICAL, DELTA_ROOT) = Scale
    /\ scenarioSeasonalityFactor(ReferenceInputs) = Num(1)
    /\ estimatedCPASOf(ReferenceInputs, scenarios[2].budget) = BASE_PREDICTED_CPAS_FACTOR
    /\ Thousandths(BASE_PREDICTED_CPAS_FACTOR) = 6818

\* C23 as stated: with the reference calibration constants and a scenario of
\* budget 67416.00, 30 days, goal 13249 starting in June, the duration, budget
\* and goal factors are 1.0, the projected CPAS of Current Plan is
\* basePredictedCPAS (about 6.818) and its projected apply starts are about 9884.
C23_WorkedExampleAsStated ==
    (scPc = "idle" /\ scInputs = ReferenceInputs) =>
        /\ ReferenceFactorsAreOne
        /\ scenarios[2].projectedAS = Num(9884)

\* C23 amended: the same, with projected apply starts of about 9888
C23_WorkedExample ==
    (scPc = "idle" /\ scInputs = ReferenceInputs) =>
        /\ ReferenceFactorsAreOne
        /\ scenarios[2].name = "Current Plan"
        /\ scenarios[2].cpas = Norm(682, 100)
        /\ scenarios[2].projectedAS = Num(9888)

\* the reference scenario has been evaluated
C23_Witness ==
    /\ scPc = "idle"
    /\ scInputs = ReferenceInputs
    /\ Len(scenarios) = 3
    /\ scenarios[2].budget = CLIENT_BUDGET


-----------------------------------------------------------------------------
(* PacingScenarioSlider: the Pacing Scenario Explorer *)

\* the positions of the budget slider (hundredths) and of the duration slider
SliderBudgetPcts == {100, 150}

SliderDurations == {7, 30}

\* bound of the number of slider moves
MaxSliderMoves == 2

\* props.inputs of the explorer
SliderInputs ==
    {[budget |-> 100, asGoal |-> 50, cpasGoal |-> undefined,
      startDate |-> DateOf(6, 1), endDate |-> DateOf(6, 30)]}

\* scenarioInputs of runScenario: the budget scaled and rounded, the end date
\* duration - 1 days after the start date
scenarioInputsOf(inputs, pct, days) ==
    [inputs EXCEPT !.budget = MathRound(Norm(inputs.budget * pct, 100)).n,
                   !.endDate = inputs.startDate + days - 1]

\* the body of a successful response of /api/cpas-for-budget
SliderResponses == {TypicalResponse}

\* bodies of a successful response of /api/boundaries-for-budget
BoundaryResponses ==
    {[max_apply_starts |-> Num(as), max_spend |-> Num(95), max_cpas |-> Num(5),
      min_apply_starts |-> Num(1), min_spend |-> Num(50), min_cpas |-> Num(4)] :
         as \in {3, 4}}

\* the first statements of runScenario and of getBoundaries, which the two
\* effects on [budgetPct, duration, inputs] call
sliderEffects(pct, days) ==
    /\ loading' = TRUE
    /\ scenarioRuns' =
          Append(scenarioRuns,
                 [pc |-> "pending", inputs |-> scenarioInputsOf(sliderInputs, pct, days),
                  returned |-> undefined])
    /\ boundariesLoading' = TRUE
    /\ boundaryRuns' =
          Append(boundaryRuns,
                 [pc |-> "pending",
                  budget |-> MathRound(Norm(sliderInputs.budget * pct, 100)).n,
                  duration |-> days, returned |-> undefined])

\* the explorer after its mount: both effects have run once
InitSlider ==
    /\ juneData = NoData
    /\ AggOff
    /\ FormOff
    /\ ScOff
    /\ HookOff
    /\ PacingOff
    /\ QualityOff
    /\ sliderInputs \in SliderInputs
    /\ budgetPct = 100
    /\ duration = 30
    /\ scenario = null
    /\ loading = TRUE
    /\ boundaries = null
    /\ boundariesLoading = TRUE
    /\ scenarioRuns = <<[pc |-> "pending",
                         inputs |-> scenarioInputsOf(sliderInputs, 100, 30),
                         returned |-> undefined]>>
    /\ boundaryRuns = <<[pc |-> "pending",
                         budget |-> MathRound(Norm(sliderInputs.budget * 100, 100)).n,
                         duration |-> 30, returned |-> undefined]>>
    /\ sliderMoves = 0

\* onChange of the budget slider, and the effects of the render that follows
setBudgetPct(value) ==
    /\ sliderInputs # null
    /\ sliderMoves < MaxSliderMoves
    /\ value # budgetPct
    /\ budgetPct' = value
    /\ sliderEffects(value, duration)
    /\ sliderMoves' = sliderMoves + 1
    /\ UNCHANGED <<sliderInputs, duration, scenario, boundaries, exceptSlider>>

\* onChange of the duration slider, and the effects of the render that follows
setDuration(value) ==
    /\ sliderInputs # null
    /\ sliderMoves < MaxSliderMoves
    /\ value # duration
    /\ duration' = value
    /\ sliderEffects(budgetPct, value)
    /\ sliderMoves' = sliderMoves + 1
    /\ UNCHANGED <<sliderInputs, budgetPct, scenario, boundaries, exceptSlider>>

\* runScenario after its await: setScenario(res), setLoading(false)
runScenarioResumes(r, res) ==
    /\ scenarioRuns[r].pc = "pending"
    /\ scenario' = res
    /\ loading' = FALSE
    /\ scenarioRuns' = [scenarioRuns EXCEPT ![r].pc = "done", ![r].returned = res]
    /\ UNCHANGED <<sliderInputs, budgetPct, duration, boundaries, boundariesLoading,
                   boundaryRuns, sliderMoves, exceptSlider>>

\* calculatePredictions of run r returned the results of a successful response
runScenarioOk(r, data) ==
    runScenarioResumes(r, predictionResults(scenarioRuns[r].inputs, data))

\* calculatePredictions of run r caught a failure and returned null
runScenarioFailed(r) == runScenarioResumes(r, null)

\* getBoundaries after its await: setBoundaries, setBoundariesLoading(false)
getBoundariesResumes(r, res) ==
    /\ boundaryRuns[r].pc = "pending"
    /\ boundaries' = res
    /\ boundariesLoading' = FALSE
    /\ boundaryRuns' = [boundaryRuns EXCEPT ![r].pc = "done", ![r].returned = res]
    /\ UNCHANGED <<sliderInputs, budgetPct, duration, scenario, loading, scenarioRuns,
                   sliderMoves, exceptSlider>>

\* fetchBoundaries of run r resolved with a body
getBoundariesOk(r, body) == getBoundariesResumes(r, body)

\* fetchBoundaries of run r threw: the catch block sets null
getBoundariesRejected(r) == getBoundariesResumes(r, null)

NextSlider ==
    \/ \E value \in SliderBudgetPcts : setBudgetPct(value)
    \/ \E value \in SliderDurations : setDuration(value)
    \/ \E r \in DOMAIN scenarioRuns : \E data \in SliderResponses : runScenarioOk(r, data)
    \/ \E r \in DOMAIN scenarioRuns : runScenarioFailed(r)
    \/ \E r \in DOMAIN boundaryRuns : \E body \in BoundaryResponses : getBoundariesOk(r, body)
    \/ \E r \in DOMAIN boundaryRuns : getBoundariesRejected(r)

SpecSlider == InitSlider /\ [][NextSlider]_vars

\* no runScenario call and no getBoundaries call is waiting for its response
NoRunPending ==
    /\ \A r \in DOMAIN scenarioRuns : scenarioRuns[r].pc = "done"
    /\ \A r \in DOMAIN boundaryRuns : boundaryRuns[r].pc = "done"

\* C27: in the Pacing Scenario Explorer, once all in-flight requests have
\* completed, the displayed scenario and the displayed boundaries are the
\* results for the most recently selected budget and duration, whatever order
\* the responses arrive in, and loading is false only when no scenario request
\* is pending.
C27_LatestSelectionDisplayed ==
    /\ NoRunPending =>
          /\ scenario = scenarioRuns[Len(scenarioRuns)].returned
          /\ boundaries = boundaryRuns[Len(boundaryRuns)].returned
    /\ (sliderInputs # null /\ ~loading) =>
          \A r \in DOMAIN scenarioRuns : scenarioRuns[r].pc = "done"

=============================================================================
